---------------------------- MODULE Spec2Model ----------------------------
(***************************************************************************)
(* brewery-map: the /api/breweries route handler (GET, geocodeCityState,   *)
(* milesBetween) and the MapView component's query handling.               *)
(*                                                                         *)
(* Three specifications share the module:                                  *)
(*   SpecDist  - milesBetween applied to pairs of in-range points          *)
(*   Spec      - one GET request against the two external collaborators    *)
(*   SpecUI    - one MapView session (mount, Search, Use my location,      *)
(*               geolocation callbacks, responses of /api/breweries)       *)
(*                                                                         *)
(* JavaScript values are records [type, text, val]:                        *)
(*   null, numbers (NaN included) and strings (empty, a decimal literal    *)
(*   of val, or a text that is no number).  Angles are whole degrees,      *)
(*   distances and radii are hundredths of a mile.  Floating point is      *)
(*   modelled as fixed point with ONE standing for 1.0 and every           *)
(*   operation rounded to nearest, as IEEE arithmetic rounds.              *)
(***************************************************************************)
EXTENDS Integers, Sequences, FiniteSets, TLC

VARIABLES
    \* ---- milesBetween under test
    mbArgs,      \* [lat1, lon1, lat2, lon2], each a JS number
    mbResult,    \* the returned JS number; Null before the call
    mbPc,        \* "input" | "returned"
    \* ---- GET /api/breweries
    req,         \* the query parameters, as searchParams.get returns them
    originLat,   \* let originLat: number | null
    originLon,   \* let originLon: number | null
    geoRes,      \* what geocodeCityState's fetch answered
    dirRes,      \* what the directory's fetch answered
    calls,       \* the external calls issued so far, in order
    response,    \* what GET returned; Null while it runs
    pc,          \* "start" | "geocode" | "directory" | "done" | "thrown"
    \* ---- MapView
    breweries,   \* useState<Brewery[]>
    loading,     \* useState(false)
    error,       \* useState<string | null>
    userLoc,     \* useState<{lat, lon} | null>
    mounted,     \* whether the initial-load effect has run
    geolocation, \* whether navigator.geolocation exists
    geoPending,  \* getCurrentPosition requests not yet called back
    inflight,    \* the fetches of /api/breweries not yet settled
    started,     \* number of queries started so far
    lastDone,    \* history: how the last settled query ended
    shownFrom    \* history: the query whose handler last set breweries

mbVars == <<mbArgs, mbResult, mbPc>>
getVars == <<req, originLat, originLon, geoRes, dirRes, calls, response, pc>>
uiVars == <<breweries, loading, error, userLoc, mounted, geolocation,
            geoPending, inflight, started, lastDone, shownFrom>>
vars == <<mbVars, getVars, uiVars>>

-----------------------------------------------------------------------------
(* JavaScript values *)

Null == [type |-> "null", text |-> "", val |-> 0]
Num(n) == [type |-> "number", text |-> "", val |-> n]
NaN == [type |-> "number", text |-> "NaN", val |-> 0]
\* the string holding the decimal literal of n
NumStr(n) == [type |-> "string", text |-> "digits", val |-> n]
EmptyStr == [type |-> "string", text |-> "", val |-> 0]
\* a non-empty string that is no numeric literal
BadStr == [type |-> "string", text |-> "abc", val |-> 0]

IsNaN(v) == v.type = "number" /\ v.text = "NaN"
IsNumber(v) == v.type = "number" /\ v.text # "NaN"

\* typeof v === "number" (true of NaN)
TypeofNumber(v) == v.type = "number"

\* Number(v)
Number(v) ==
    CASE v.type = "number" -> v
      [] v.type = "null" -> Num(0)
      [] v.type = "string" /\ v.text = "digits" -> Num(v.val)
      [] v.type = "string" /\ v.text = "" -> Num(0)
      [] OTHER -> NaN

\* the truthiness test of `v ? .. : ..` and `v || d`
Truthy(v) ==
    CASE v.type = "null" -> FALSE
      [] v.type = "string" -> v.text # ""
      [] OTHER -> IsNumber(v) /\ v.val # 0

\* v || d
OrElse(v, d) == IF Truthy(v) THEN v ELSE d

\* x > y and x <= y on JS numbers: false when either is NaN
Gt(x, y) == IsNumber(x) /\ IsNumber(y) /\ x.val > y.val
Le(x, y) == IsNumber(x) /\ IsNumber(y) /\ x.val <= y.val

\* Math.min(x, y)
MathMin(x, y) ==
    IF IsNaN(x) \/ IsNaN(y) THEN NaN
    ELSE IF x.val <= y.val THEN x ELSE y

-----------------------------------------------------------------------------
(* Distance engine: toRad, milesBetween *)

\* 1.0 in the fixed-point arithmetic that stands for IEEE doubles: squares
\* of values up to 1.0 stay within TLC's 32-bit integers
ONE == 40000

\* 1000 * (2 * R * PI / 360): thousandths of a mile per degree of arc, from
\* R = 3958.7613 and toRad's PI / 180
MilliMilesPerDegree == 69093

\* Math.sin at the half degrees 0, 0.5, .., 90, rounded to nearest
SinTable == <<
        0,   349,   698,  1047,  1396,  1745,  2093,  2442,  2790,  3138,
     3486,  3834,  4181,  4528,  4875,  5221,  5567,  5912,  6257,  6602,
     6946,  7289,  7632,  7975,  8316,  8658,  8998,  9338,  9677, 10015,
    10353, 10690, 11025, 11361, 11695, 12028, 12361, 12692, 13023, 13352,
    13681, 14008, 14335, 14660, 14984, 15307, 15629, 15950, 16269, 16588,
    16905, 17220, 17535, 17848, 18160, 18470, 18779, 19086, 19392, 19697,
    20000, 20302, 20602, 20900, 21197, 21492, 21786, 22077, 22368, 22656,
    22943, 23228, 23511, 23793, 24073, 24350, 24626, 24901, 25173, 25443,
    25712, 25978, 26242, 26505, 26765, 27024, 27280, 27534, 27786, 28036,
    28284, 28530, 28774, 29015, 29254, 29491, 29726, 29958, 30188, 30416,
    30642, 30865, 31086, 31304, 31520, 31734, 31945, 32154, 32361, 32565,
    32766, 32965, 33162, 33355, 33547, 33736, 33922, 34106, 34287, 34465,
    34641, 34814, 34985, 35153, 35318, 35480, 35640, 35797, 35952, 36103,
    36252, 36398, 36542, 36682, 36820, 36955, 37087, 37217, 37343, 37467,
    37588, 37706, 37821, 37933, 38042, 38149, 38252, 38353, 38450, 38545,
    38637, 38726, 38812, 38895, 38975, 39052, 39126, 39197, 39265, 39330,
    39392, 39451, 39508, 39561, 39611, 39658, 39702, 39743, 39781, 39816,
    39848, 39877, 39903, 39925, 39945, 39962, 39976, 39986, 39994, 39998,
    40000 >>

\* Math.sin(toRad(d) / 2) for a difference of d whole degrees, |d| <= 360:
\* the angle is d half degrees; sin(180 - x) = sin(x), sin(-x) = -sin(x)
SinHalf(d) ==
    LET m == IF d < 0 THEN -d ELSE d
        r == IF m > 180 THEN 360 - m ELSE m
        v == SinTable[r + 1]
    IN  IF d < 0 THEN -v ELSE v

\* Math.cos(toRad(lat)) for -90 <= lat <= 90: cos(x) = sin(90 - x)
CosDeg(lat) == SinHalf(180 - 2 * lat)

\* x * y, rounded to nearest (both factors are >= 0 here)
Mul(x, y) == (x * y + ONE \div 2) \div ONE

\* the largest r in lo..hi with r * r <= n
RECURSIVE FloorSqrt(_, _, _)
FloorSqrt(n, lo, hi) ==
    IF lo = hi THEN lo
    ELSE LET mid == (lo + hi + 1) \div 2
         IN  IF mid * mid <= n THEN FloorSqrt(n, mid, hi)
             ELSE FloorSqrt(n, lo, mid - 1)

\* Math.sqrt(x) for 0 <= x <= 1.25, rounded to nearest
MathSqrt(x) ==
    LET n == x * ONE
        r == FloorSqrt(n, 0, ONE + ONE \div 8)
    IN  IF n - r * r > r THEN r + 1 ELSE r

\* Math.asin(s) for s >= 0, in hundredths of a half degree, as a JS number:
\* NaN for an argument above 1.0, else the table inverted with linear
\* interpolation
MathAsin(s) ==
    IF s > ONE THEN NaN
    ELSE LET k == CHOOSE i \in 0..180 :
                    /\ SinTable[i + 1] <= s
                    /\ (i = 180 \/ SinTable[i + 2] > s)
         IN  IF k = 180 THEN Num(18000)
             ELSE LET lo == SinTable[k + 1]
                      hi == SinTable[k + 2]
                  IN  Num(k * 100 + ((s - lo) * 100 + (hi - lo) \div 2) \div (hi - lo))

\* const a = sin(dLat/2)**2 + cos(lat1) * cos(lat2) * sin(dLon/2)**2,
\* on whole degrees
HaversineA(lat1, lon1, lat2, lon2) ==
    Mul(SinHalf(lat2 - lat1), SinHalf(lat2 - lat1))
      + Mul(Mul(CosDeg(lat1), CosDeg(lat2)),
            Mul(SinHalf(lon2 - lon1), SinHalf(lon2 - lon1)))

\* TwoRTimes without the factor 2
RTimes(x) ==
    IF IsNaN(x) THEN NaN
    ELSE Num((x.val * MilliMilesPerDegree + 1000) \div 2000)

\* 2 * R * x for x = Math.asin(..): hundredths of a mile
TwoRTimes(x) ==
    IF IsNaN(x) THEN NaN
    ELSE Num((x.val * MilliMilesPerDegree + 500) \div 1000)

\* milesBetween(lat1, lon1, lat2, lon2) on JS numbers; a NaN argument
\* propagates.  The route and MapView each carry the same function.
milesBetween(lat1, lon1, lat2, lon2) ==
    IF IsNaN(lat1) \/ IsNaN(lon1) \/ IsNaN(lat2) \/ IsNaN(lon2) THEN NaN
    ELSE LET a == HaversineA(lat1.val, lon1.val, lat2.val, lon2.val)
         IN  TwoRTimes(MathAsin(MathSqrt(a)))

\* the in-range points milesBetween is applied to
Lats == {-90, -8, 0, 8, 34, 40, 90}
Lons == {-180, -118, -105, 0, 180}

InitDist ==
    /\ mbArgs \in [lat1 : {Num(x) : x \in Lats}, lon1 : {Num(x) : x \in Lons},
                   lat2 : {Num(x) : x \in Lats}, lon2 : {Num(x) : x \in Lons}]
    /\ mbResult = Null
    /\ mbPc = "input"

MilesBetweenCall ==
    /\ mbPc = "input"
    /\ mbResult' = milesBetween(mbArgs.lat1, mbArgs.lon1, mbArgs.lat2, mbArgs.lon2)
    /\ mbPc' = "returned"
    /\ UNCHANGED <<mbArgs, getVars, uiVars>>

IdleDist == mbArgs = Null /\ mbResult = Null /\ mbPc = "idle"

-----------------------------------------------------------------------------
(* GET /api/breweries *)

\* a string that is a name, not a number
Text(t) == [type |-> "string", text |-> t, val |-> 0]

\* longest directory answer drawn
MaxRecords == 2

\* searchParams.get(..) results the request is drawn from
CityParams == {Null, Text("Boulder")}
StateParams == {Null, Text("Texas")}
LatParams == {Null, EmptyStr, NumStr(40), NumStr(0)}
LonParams == {Null, NumStr(-105), BadStr}
RadiusParams == {Null, NumStr(0), NumStr(6840), BadStr}
PerPageParams == {Null, NumStr(500)}

\* the records the directory's answers are drawn from: at the origin
\* (40,-105); one degree of latitude north of it (68.40 miles as
\* milesBetween computes here, the radius 6840 of RadiusParams); Los Angeles;
\* the origin with its coordinates as strings; no coordinates
Catalogue == {
    [id |-> "b1", latitude |-> Num(40), longitude |-> Num(-105)],
    [id |-> "b2", latitude |-> Num(41), longitude |-> Num(-105)],
    [id |-> "b3", latitude |-> Num(34), longitude |-> Num(-118)],
    [id |-> "b4", latitude |-> NumStr(40), longitude |-> NumStr(-105)],
    [id |-> "b5", latitude |-> Null, longitude |-> Null] }

SeqsUpTo(S, n) == UNION {[1..k -> S] : k \in 0..n}

Rejected == [kind |-> "rejected"]
Res(status, data) ==
    [kind |-> "response", ok |-> (status >= 200 /\ status <= 299),
     status |-> status, data |-> data]

\* what the fetch of the geocoder can do: fail in transport, answer with a
\* non-success status, with no match, or with one match
GeoOutcomes == {
    Rejected,
    Res(500, <<>>),
    Res(200, <<>>),
    Res(200, <<[lat |-> NumStr(40), lon |-> NumStr(-105)]>>) }

\* what the fetch of the directory can do
DirOutcomes ==
    {Rejected, Res(404, <<>>), Res(503, <<>>)}
      \cup {Res(200, d) : d \in SeqsUpTo(Catalogue, MaxRecords)}

\* const city = searchParams.get("city") || "Denver", and the like
city == OrElse(req.city, Text("Denver"))
state == OrElse(req.state, Text("Colorado"))
radiusMiles == Number(OrElse(req.radius, NumStr(3000)))
perPage == MathMin(Number(OrElse(req.per_page, NumStr(200))), Num(200))

\* latParam ? Number(latParam) : null
ParamOrNull(param) == IF Truthy(param) THEN Number(param) ELSE Null

\* NeedsGeocode without the test of the radius
NeedsGeocodeAnyRadius(oLat, oLon, radius) == oLat = Null \/ oLon = Null

\* (originLat === null || originLon === null) && radiusMiles > 0
NeedsGeocode(oLat, oLon, radius) ==
    (oLat = Null \/ oLon = Null) /\ Gt(radius, Num(0))

\* geocodeCityState's result from its fetch's response: null or {lat, lon}
geocodeCityState(res) ==
    IF ~res.ok THEN Null
    ELSE IF Len(res.data) = 0 THEN Null
    ELSE [lat |-> Number(res.data[1].lat), lon |-> Number(res.data[1].lon)]

GeocodeCall == [to |-> "geocoder", q |-> <<city, state, Text("USA")>>]

\* the directory request: by_dist when there is an origin, else by_city and
\* by_state
DirectoryCall(oLat, oLon) ==
    IF oLat # Null /\ oLon # Null
    THEN [to |-> "directory", per_page |-> perPage, by_dist |-> <<oLat, oLon>>]
    ELSE [to |-> "directory", per_page |-> perPage,
          by_city |-> city, by_state |-> state]

\* ErrorResponse answering 500 whatever the directory's status
ErrorResponse500(res) ==
    [status |-> 500, body |-> [error |-> "Failed to fetch breweries"]]

\* NextResponse.json({error: ..}, {status: res.status})
ErrorResponse(res) ==
    [status |-> res.status, body |-> [error |-> "Failed to fetch breweries"]]

\* ShouldFilter without the test of the radius
ShouldFilterAnyRadius(oLat, oLon, radius) == oLat # Null /\ oLon # Null

\* originLat !== null && originLon !== null && radiusMiles > 0
ShouldFilter(oLat, oLon, radius) ==
    oLat # Null /\ oLon # Null /\ Gt(radius, Num(0))

\* InRadius with d < radiusMiles
InRadiusStrict(b, oLat, oLon, radius) ==
    IF ~TypeofNumber(b.latitude) \/ ~TypeofNumber(b.longitude) THEN FALSE
    ELSE LET d == milesBetween(oLat, oLon, b.latitude, b.longitude)
         IN  IsNumber(d) /\ IsNumber(radius) /\ d.val < radius.val

\* the callback of data.filter
InRadius(b, oLat, oLon, radius) ==
    IF ~TypeofNumber(b.latitude) \/ ~TypeofNumber(b.longitude) THEN FALSE
    ELSE Le(milesBetween(oLat, oLon, b.latitude, b.longitude), radius)

\* Array.prototype.filter
RECURSIVE Filter(_, _, _, _)
Filter(data, oLat, oLon, radius) ==
    IF data = <<>> THEN <<>>
    ELSE LET rest == Filter(Tail(data), oLat, oLon, radius)
         IN  IF InRadius(Head(data), oLat, oLon, radius)
             THEN <<Head(data)>> \o rest ELSE rest

\* what GET returns for a successful directory answer
SuccessResponse(data, oLat, oLon, radius) ==
    IF ShouldFilter(oLat, oLon, radius)
    THEN [status |-> 200,
          body |-> [origin |-> [lat |-> oLat, lon |-> oLon, radiusMiles |-> radius],
                    breweries |-> Filter(data, oLat, oLon, radius)]]
    ELSE [status |-> 200, body |-> [breweries |-> data]]

InitGet ==
    /\ req \in [city : CityParams, state : StateParams, lat : LatParams,
                lon : LonParams, radius : RadiusParams, per_page : PerPageParams]
    /\ originLat = Null
    /\ originLon = Null
    /\ geoRes = Null
    /\ dirRes = Null
    /\ calls = <<>>
    /\ response = Null
    /\ pc = "start"

\* GET up to its first await: the geocoder's fetch, or the directory's
GETStart ==
    /\ pc = "start"
    /\ originLat' = ParamOrNull(req.lat)
    /\ originLon' = ParamOrNull(req.lon)
    /\ IF NeedsGeocode(originLat', originLon', radiusMiles)
       THEN /\ calls' = <<GeocodeCall>>
            /\ pc' = "geocode"
       ELSE /\ calls' = <<DirectoryCall(originLat', originLon')>>
            /\ pc' = "directory"
    /\ UNCHANGED <<req, geoRes, dirRes, response, mbVars, uiVars>>

\* the geocoder's fetch settles; GET goes on to the directory's fetch, or
\* rejects with the fetch's exception (no try/catch anywhere)
GETAfterGeocode ==
    /\ pc = "geocode"
    /\ \E r \in GeoOutcomes :
        /\ geoRes' = r
        /\ IF r.kind = "rejected"
           THEN /\ pc' = "thrown"
                /\ UNCHANGED <<originLat, originLon, calls>>
           ELSE LET geo == geocodeCityState(r)
                    oLat == IF geo # Null THEN geo.lat ELSE originLat
                    oLon == IF geo # Null THEN geo.lon ELSE originLon
                IN  /\ originLat' = oLat
                    /\ originLon' = oLon
                    /\ calls' = Append(calls, DirectoryCall(oLat, oLon))
                    /\ pc' = "directory"
    /\ UNCHANGED <<req, dirRes, response, mbVars, uiVars>>

\* the directory's fetch settles; GET returns its response or rejects
GETAfterDirectory ==
    /\ pc = "directory"
    /\ \E r \in DirOutcomes :
        /\ dirRes' = r
        /\ IF r.kind = "rejected"
           THEN /\ pc' = "thrown"
                /\ UNCHANGED response
           ELSE /\ pc' = "done"
                /\ response' =
                     IF ~r.ok THEN ErrorResponse(r)
                     ELSE SuccessResponse(r.data, originLat, originLon, radiusMiles)
    /\ UNCHANGED <<req, originLat, originLon, geoRes, calls, mbVars, uiVars>>

IdleGet ==
    /\ req = Null /\ originLat = Null /\ originLon = Null /\ geoRes = Null
    /\ dirRes = Null /\ calls = <<>> /\ response = Null /\ pc = "idle"

-----------------------------------------------------------------------------
(* MapView *)

\* queries one session starts at most
MaxQueries == 3
\* getCurrentPosition requests outstanding at most
MaxGeoPending == 2

ErrorFetching == Text("Error fetching breweries.")

\* what the fetch of /api/breweries and res.json() can do: throw (transport
\* failure, or a body that is no JSON), or deliver one of GET's responses
ApiOutcomes ==
    {Rejected,
     ErrorResponse(Res(503, <<>>)),
     SuccessResponse(<<>>, Null, Null, Num(3000)),
     SuccessResponse(<<[id |-> "b5", latitude |-> Null, longitude |-> Null]>>,
                     Null, Null, Num(3000)),
     SuccessResponse(<<[id |-> "b1", latitude |-> Num(40), longitude |-> Num(-105)]>>,
                     Num(40), Num(-105), Num(3000))}

\* the positions getCurrentPosition reports
Positions == {[lat |-> Num(40), lon |-> Num(-105)]}

\* Array.isArray(json) ? json : json.breweries ?? []  (GET's bodies are
\* objects)
BreweriesOf(json) ==
    IF "breweries" \in DOMAIN json THEN json.breweries ELSE <<>>

InitUI ==
    /\ breweries = <<>>
    /\ loading = FALSE
    /\ error = Null
    /\ userLoc = Null
    /\ mounted = FALSE
    /\ geolocation \in BOOLEAN
    /\ geoPending = 0
    /\ inflight = {}
    /\ started = 0
    /\ lastDone = Null
    /\ shownFrom = 0

\* the synchronous head of fetchBreweries / fetchBreweriesByCoords, up to the
\* await of fetch: loc is null for fetchBreweries
StartQuery(kind, loc) ==
    /\ started < MaxQueries
    /\ loading' = TRUE
    /\ error' = Null
    /\ userLoc' = loc
    /\ inflight' = inflight \cup {[id |-> started + 1, kind |-> kind]}
    /\ started' = started + 1

\* useEffect(() => { fetchBreweries(city, stateName) }, [])
InitialLoad ==
    /\ ~mounted
    /\ mounted' = TRUE
    /\ StartQuery("city", Null)
    /\ UNCHANGED <<breweries, geolocation, geoPending, lastDone, shownFrom,
                   mbVars, getVars>>

\* the form's onSubmit; the submit button is disabled while loading
SubmitSearch ==
    /\ mounted
    /\ ~loading
    /\ StartQuery("city", Null)
    /\ UNCHANGED <<breweries, mounted, geolocation, geoPending, lastDone,
                   shownFrom, mbVars, getVars>>

\* onClick of "Use my location"; the button is disabled while loading
UseMyLocation ==
    /\ mounted
    /\ ~loading
    /\ IF ~geolocation
       THEN /\ error' = Text("Geolocation not supported.")
            /\ UNCHANGED geoPending
       ELSE /\ geoPending < MaxGeoPending
            /\ geoPending' = geoPending + 1
            /\ UNCHANGED error
    /\ UNCHANGED <<breweries, loading, userLoc, mounted, geolocation, inflight,
                   started, lastDone, shownFrom, mbVars, getVars>>

\* getCurrentPosition's success callback
GeolocationSuccess ==
    /\ geoPending > 0
    /\ geoPending' = geoPending - 1
    /\ \E pos \in Positions : StartQuery("coords", pos)
    /\ UNCHANGED <<breweries, mounted, geolocation, lastDone, shownFrom,
                   mbVars, getVars>>

\* getCurrentPosition's error callback
GeolocationError ==
    /\ geoPending > 0
    /\ geoPending' = geoPending - 1
    /\ error' = Text("Could not get your location.")
    /\ UNCHANGED <<breweries, loading, userLoc, mounted, geolocation, inflight,
                   started, lastDone, shownFrom, mbVars, getVars>>

\* what a settled query leaves in lastDone
OutcomeKind(o) ==
    IF o.kind = "rejected" THEN "rejected"
    ELSE IF o.status >= 200 /\ o.status <= 299 THEN "ok" ELSE "status"

AsOutcome(o) == IF o = Rejected THEN o ELSE [kind |-> "response"] @@ o

\* the rest of fetchBreweries / fetchBreweriesByCoords, from the await of
\* fetch on: try, catch and finally
QuerySettles ==
    \E q \in inflight, r \in ApiOutcomes :
        LET o == AsOutcome(r) IN
        /\ inflight' = inflight \ {q}
        /\ IF o.kind = "rejected"
           THEN /\ error' = ErrorFetching
                /\ breweries' = <<>>
           ELSE /\ breweries' = BreweriesOf(o.body)
                /\ UNCHANGED error
        /\ loading' = FALSE
        /\ lastDone' = [id |-> q.id, kind |-> OutcomeKind(o)]
        /\ shownFrom' = q.id
        /\ UNCHANGED <<userLoc, mounted, geolocation, geoPending, started,
                       mbVars, getVars>>

IdleUI ==
    /\ breweries = <<>> /\ loading = FALSE /\ error = Null /\ userLoc = Null
    /\ mounted = FALSE /\ geolocation = FALSE /\ geoPending = 0
    /\ inflight = {} /\ started = 0
    /\ lastDone = Null /\ shownFrom = 0

-----------------------------------------------------------------------------
(* Specifications *)

InitD == InitDist /\ IdleGet /\ IdleUI
NextDist == MilesBetweenCall
SpecDist == InitD /\ [][NextDist]_vars

Init == IdleDist /\ InitGet /\ IdleUI
Next == GETStart \/ GETAfterGeocode \/ GETAfterDirectory
Spec == Init /\ [][Next]_vars

InitU == IdleDist /\ IdleGet /\ InitUI
NextUI ==
    \/ InitialLoad
    \/ SubmitSearch
    \/ UseMyLocation
    \/ GeolocationSuccess
    \/ GeolocationError
    \/ QuerySettles
SpecUI == InitU /\ [][NextUI]_vars

-----------------------------------------------------------------------------
(* Claims about GET, under Spec *)

Range(s) == {s[i] : i \in 1..Len(s)}

\* s is t with some elements left out, the order kept
RECURSIVE IsSubseq(_, _)
IsSubseq(s, t) ==
    IF s = <<>> THEN TRUE
    ELSE IF t = <<>> THEN FALSE
    ELSE IF Head(s) = Head(t) THEN IsSubseq(Tail(s), Tail(t))
    ELSE IsSubseq(s, Tail(t))

OriginResolved == originLat # Null /\ originLon # Null
Succeeded == pc = "done" /\ dirRes.ok
RadiusFiltered == Succeeded /\ OriginResolved /\ Gt(radiusMiles, Num(0))
CallsTo(t) == {i \in 1..Len(calls) : calls[i].to = t}
DistanceTo(b) == milesBetween(originLat, originLon, b.latitude, b.longitude)

\* C1: with an origin resolved and radiusMiles > 0, the breweries GET returns
\* are a subsequence of the directory's answer in its order, every one with
\* numeric coordinates at a distance <= radiusMiles from the origin, and a
\* record at exactly radiusMiles is kept.
C1_RadiusFilter ==
    RadiusFiltered =>
        LET out == response.body.breweries IN
        /\ IsSubseq(out, dirRes.data)
        /\ \A b \in Range(out) :
              /\ IsNumber(b.latitude) /\ IsNumber(b.longitude)
              /\ Le(DistanceTo(b), radiusMiles)
        /\ \A b \in Range(dirRes.data) :
              (/\ IsNumber(b.latitude) /\ IsNumber(b.longitude)
               /\ DistanceTo(b) = radiusMiles) => b \in Range(out)

\* C1's case: a record exactly radiusMiles away is kept and a farther one,
\* delivered before it, is dropped
C1_Witness ==
    /\ RadiusFiltered
    /\ Len(dirRes.data) = 2
    /\ Len(response.body.breweries) = 1
    /\ Gt(DistanceTo(dirRes.data[1]), radiusMiles)
    /\ DistanceTo(response.body.breweries[1]) = radiusMiles

\* a coordinate that parses to a valid number, delivered as a number or as a
\* numeric string
Parseable(v) ==
    \/ IsNumber(v)
    \/ v.type = "string" /\ v.text = "digits"

\* C2: in a radius-filtered query every directory record whose coordinates
\* parse to valid numbers, numbers or numeric strings, and that lies within
\* radiusMiles of the origin is in the result.
C2_StringCoordinatesKept ==
    RadiusFiltered =>
        \A b \in Range(dirRes.data) :
            (/\ Parseable(b.latitude) /\ Parseable(b.longitude)
             /\ Le(milesBetween(originLat, originLon,
                                Number(b.latitude), Number(b.longitude)),
                   radiusMiles))
              => b \in Range(response.body.breweries)

DirectoryFailed == dirRes # Null /\ dirRes.kind = "response" /\ ~dirRes.ok

\* C3: when the directory answers with a non-success status s, GET responds
\* with status s and a body with neither breweries nor origin, and the
\* directory was called once.
C3_DirectoryStatusPropagated ==
    DirectoryFailed =>
        /\ pc = "done"
        /\ response.status = dirRes.status
        /\ DOMAIN response.body \cap {"breweries", "origin"} = {}
        /\ Cardinality(CallsTo("directory")) = 1

\* C3's case: the directory answered 503 after a geocoded origin
C3_Witness ==
    /\ DirectoryFailed
    /\ dirRes.status = 503
    /\ response.status = 503
    /\ Len(calls) = 2

GeocodeFailed ==
    /\ geoRes # Null
    /\ \/ geoRes.kind = "rejected"
       \/ ~geoRes.ok
       \/ Len(geoRes.data) = 0

\* C4: a geocoding failure of any kind (transport failure, non-success
\* status, empty result) never makes the query fail: GET goes on to query
\* the directory by city and region and returns its answer unfiltered.
C4_GeocodeFailureAbsorbed ==
    GeocodeFailed =>
        /\ Len(calls) = 2
        /\ calls[2] = [to |-> "directory", per_page |-> perPage,
                       by_city |-> city, by_state |-> state]
        /\ (dirRes = Null => pc = "directory")
        /\ (dirRes # Null /\ dirRes.kind = "response" /\ dirRes.ok =>
                response = [status |-> 200, body |-> [breweries |-> dirRes.data]])

\* C5: the success response carries origin (with radiusMiles) exactly when an
\* origin was resolved and radiusMiles > 0; otherwise its body is the
\* directory's answer alone, unchanged; and whenever an origin exists the
\* directory was asked by distance from it.
C5_OriginFieldsIffFiltered ==
    Succeeded =>
        LET f == OriginResolved /\ Gt(radiusMiles, Num(0)) IN
        /\ response.status = 200
        /\ ("origin" \in DOMAIN response.body) <=> f
        /\ f => response.body.origin =
                  [lat |-> originLat, lon |-> originLon, radiusMiles |-> radiusMiles]
        /\ ~f => response.body = [breweries |-> dirRes.data]
        /\ OriginResolved =>
              calls[Len(calls)] = [to |-> "directory", per_page |-> perPage,
                                   by_dist |-> <<originLat, originLon>>]

\* C5's case: explicit latitude and longitude with radiusMiles = 0
C5_Witness ==
    /\ Succeeded
    /\ req.lat = NumStr(40) /\ req.lon = NumStr(-105) /\ req.radius = NumStr(0)
    /\ Len(dirRes.data) = 2
    /\ \E b \in Range(dirRes.data) : ~IsNumber(b.latitude)
    /\ response.body = [breweries |-> dirRes.data]
    /\ calls = <<[to |-> "directory", per_page |-> perPage,
                  by_dist |-> <<Num(40), Num(-105)>>]>>

BothSupplied == Truthy(req.lat) /\ Truthy(req.lon)

\* C6: the geocoder is called exactly when latitude and longitude are not
\* both supplied and radiusMiles > 0; supplied coordinates are the origin
\* unchanged; a query makes at most one call to each collaborator, and the
\* geocoder has answered before the directory is called.
C6_CallDiscipline ==
    /\ pc = "start" => calls = <<>>
    /\ pc # "start" =>
        /\ (CallsTo("geocoder") # {}) <=> (~BothSupplied /\ Gt(radiusMiles, Num(0)))
        /\ Cardinality(CallsTo("geocoder")) <= 1
        /\ Cardinality(CallsTo("directory")) <= 1
        /\ BothSupplied =>
              originLat = Number(req.lat) /\ originLon = Number(req.lon)
        /\ \A i \in CallsTo("geocoder"), j \in CallsTo("directory") :
              i < j /\ geoRes # Null /\ geoRes.kind = "response"
        /\ pc \in {"directory", "done"} => Cardinality(CallsTo("directory")) = 1

\* C6's case: a geocoder call that resolved the origin, then the directory
C6_Witness ==
    /\ pc = "done"
    /\ ~BothSupplied
    /\ Len(calls) = 2
    /\ calls[1].to = "geocoder"
    /\ calls[2].to = "directory"
    /\ OriginResolved

-----------------------------------------------------------------------------
(* Claims about milesBetween, under SpecDist *)

Returned == mbPc = "returned"
\* the value milesBetween hands to Math.sqrt
SqrtArgument ==
    HaversineA(mbArgs.lat1.val, mbArgs.lon1.val, mbArgs.lat2.val, mbArgs.lon2.val)
SamePoint == mbArgs.lat1 = mbArgs.lat2 /\ mbArgs.lon1 = mbArgs.lon2
ZeroToAntimeridian ==
    mbArgs = [lat1 |-> Num(0), lon1 |-> Num(0), lat2 |-> Num(0), lon2 |-> Num(180)]
Near(x, y, tol) == x - y <= tol /\ y - x <= tol

-----------------------------------------------------------------------------
(* Claims about MapView, under SpecUI *)

\* C7: whenever a query ends in a non-success status of the API route or in
\* a transport failure, the UI then shows "Error fetching breweries." and
\* its list of breweries is empty.
C7_FailureShowsError ==
    [][(lastDone' # lastDone /\ lastDone'.kind \in {"status", "rejected"})
         => (error' = ErrorFetching /\ breweries' = <<>>)]_vars

\* C8: at most one query to /api/breweries is in flight at any time.
C8_OneQueryInFlight == Cardinality(inflight) <= 1

\* C10: once no query is in flight the displayed breweries are the response
\* of the most recently started query, and loading is true whenever a query
\* is in flight.
C10_LatestResponseShown ==
    /\ (inflight = {} /\ started > 0) => shownFrom = started
    /\ inflight # {} => loading

=============================================================================
